---- MODULE Spec2Model ----
(***************************************************************************)
(* Mergington High School activities API (src/src/app.py, src/src/db.py). *)
(*                                                                         *)
(* The store is the two SQLite tables of db.py.  `activities` is the set   *)
(* of Activity rows.  `participants` is the bag of Participant rows        *)
(* [email, activity_id]: the surrogate id of a Participant is read by no   *)
(* handler, so two rows that differ only in their id are two copies of    *)
(* one element of the bag.                                                 *)
(*                                                                         *)
(* A request is a process: FastAPI resolves Depends(get_db) (the session   *)
(* is opened), runs the handler, whose every query reads the committed     *)
(* tables at the moment it runs, and then resumes get_db, whose finally    *)
(* clause closes the session.  Spec lets one request run at a time         *)
(* (serialized access); ConcSpec interleaves the steps of the requests.    *)
(***************************************************************************)
EXTENDS Integers, Sequences, FiniteSets, Bags, TLC

(* Bounds of the model. *)
NumRequests == 2
NumEmails == 3
MaxParticipants == 2

Requests == 1..NumRequests

(* Student emails, the first NumEmails of the catalog's. *)
CatalogEmails ==
    << "michael@mergington.edu", "daniel@mergington.edu", "emma@mergington.edu",
       "sophia@mergington.edu", "john@mergington.edu", "olivia@mergington.edu" >>

Emails == { CatalogEmails[i] : i \in 1..NumEmails }

(* The seed: the shape of app.py's `activities`, scaled down.  Every roster *)
(* holds distinct emails and fits the capacity, as in the catalog; the      *)
(* second entry has no max_participants, so that init_db's `or 0` is        *)
(* exercised and one activity is unlimited.                                 *)
seed_data ==
    << [ name |-> "Chess Club",
         description |-> "Learn strategies and compete in chess tournaments",
         schedule |-> "Fridays, 3:30 PM - 5:00 PM",
         max_participants |-> MaxParticipants,
         participants |-> << CatalogEmails[1] >> ],
       [ name |-> "Gym Class",
         description |-> "Physical education and sports activities",
         schedule |-> "Mondays, Wednesdays, Fridays, 2:00 PM - 3:00 PM",
         participants |-> << CatalogEmails[1], CatalogEmails[2] >> ] >>

(* The activity names a request may carry: the seeded ones and one more. *)
ActivityNames == { seed_data[i].name : i \in 1..Len(seed_data) } \cup { "Unknown Club" }

(* Python's None, for a query's .first() that finds no row. *)
NoRow == [ id |-> 0 ]

NoArgs == [ op |-> "none" ]

NoResponse == [ status_code |-> 0 ]

VARIABLES
    activities,     \* table "activities": set of Activity rows
    participants,   \* table "participants": bag of [email, activity_id]
    started,        \* on_startup has run
    pc,             \* pc[r]: where request r is
    args,           \* args[r]: [op, activity_name, email] of request r
    act,            \* act[r]: the handler's local `act`
    resp,           \* resp[r]: the handler's response
    sessions,       \* the requests whose session is open
    closes,         \* closes[r]: db.close() calls made for request r
    snap,           \* history, kept under serialized access: the tables when the
                    \* latest request or startup began
    log             \* history, kept under serialized access: the latest completed
                    \* request, if it is a signup that succeeded

vars == << activities, participants, started, pc, args, act, resp, sessions,
           closes, snap, log >>

store == << activities, participants >>

-----------------------------------------------------------------------------
(* Queries on the tables. *)

(* db.query(Activity).filter(Activity.name == activity_name).first() *)
ActivityByName(acts, activity_name) ==
    IF \E a \in acts : a.name = activity_name
    THEN CHOOSE a \in acts : a.name = activity_name
    ELSE NoRow

(* db.query(Participant).filter(activity_id == id, email == email).first() *)
ParticipantOf(ps, activity_id, email) ==
    IF BagIn([ email |-> email, activity_id |-> activity_id ], ps)
    THEN [ email |-> email, activity_id |-> activity_id ]
    ELSE NoRow

(* act.participants: the rows of one activity. *)
Roster(ps, activity_id) ==
    [ p \in { q \in BagToSet(ps) : q.activity_id = activity_id } |-> ps[p] ]

(* len(act.participants) *)
RosterSize(ps, activity_id) == BagCardinality(Roster(ps, activity_id))

(* [p.email for p in act.participants], as a bag of emails *)
RosterEmails(ps, activity_id) ==
    [ e \in { q.email : q \in DOMAIN Roster(ps, activity_id) } |->
        ps[[ email |-> e, activity_id |-> activity_id ]] ]

(* A variant that inserts the row twice. *)
AddParticipant_Twice(ps, p) == ps (+) SetToBag({ p }) (+) SetToBag({ p })

(* db.add(p); db.commit() of signup_for_activity *)
AddParticipant(ps, p) == ps (+) SetToBag({ p })

(* A variant that deletes by email alone, in every activity. *)
DeleteParticipant_AnyActivity(ps, p) ==
    [ q \in { x \in BagToSet(ps) : x.email # p.email } |-> ps[q] ]

(* A variant that deletes by activity alone, the whole roster. *)
DeleteParticipant_WholeRoster(ps, p) ==
    [ q \in { x \in BagToSet(ps) : x.activity_id # p.activity_id } |-> ps[q] ]

(* db.delete(p); db.commit() *)
DeleteParticipant(ps, p) == ps (-) SetToBag({ p })

-----------------------------------------------------------------------------
(* init_db (db.py) *)

(* A variant that seeds at every call. *)
SeedSkipped_Never(acts) == FALSE

(* `existing > 0`: seeding is skipped when an Activity row exists. *)
SeedSkipped(acts) == Cardinality(acts) > 0

(* info.get("max_participants") or 0 *)
MaxParticipantsOf(info) ==
    IF "max_participants" \in DOMAIN info /\ info.max_participants # 0
    THEN info.max_participants
    ELSE 0

(* The id the store gives the i-th Activity inserted into `acts`. *)
NewActivityId(acts, i) ==
    (IF acts = {} THEN 0 ELSE CHOOSE m \in { a.id : a \in acts } :
                                  \A a \in acts : a.id <= m) + i

(* The Activity rows of the seed. *)
SeedActivities(acts) ==
    { [ id |-> NewActivityId(acts, i),
        name |-> seed_data[i].name,
        description |-> seed_data[i].description,
        schedule |-> seed_data[i].schedule,
        max_participants |-> MaxParticipantsOf(seed_data[i]) ] : i \in 1..Len(seed_data) }

(* The Participant rows of the first n emails of one seed entry. *)
RECURSIVE SeedRoster(_, _, _)
SeedRoster(emails, activity_id, n) ==
    IF n = 0 THEN EmptyBag
    ELSE SeedRoster(emails, activity_id, n - 1)
         (+) SetToBag({ [ email |-> emails[n], activity_id |-> activity_id ] })

(* The Participant rows of the first n seed entries. *)
RECURSIVE SeedParticipants(_, _)
SeedParticipants(acts, n) ==
    IF n = 0 THEN EmptyBag
    ELSE SeedParticipants(acts, n - 1)
         (+) SeedRoster(seed_data[n].participants, NewActivityId(acts, n),
                        Len(seed_data[n].participants))

(* init_db(seed_data): the tables after the call. *)
init_db(acts, ps) ==
    IF SeedSkipped(acts)
    THEN << acts, ps >>
    ELSE << acts \cup SeedActivities(acts), ps (+) SeedParticipants(acts, Len(seed_data)) >>

-----------------------------------------------------------------------------
(* Responses (app.py) *)

NotFound == [ status_code |-> 404, detail |-> "Activity not found" ]

AlreadyEnrolled == [ status_code |-> 400, detail |-> "Student is already signed up" ]

Full == [ status_code |-> 400, detail |-> "Activity is full" ]

NotEnrolled ==
    [ status_code |-> 400, detail |-> "Student is not signed up for this activity" ]

SignedUp(email, activity_name) ==
    [ status_code |-> 200,
      message |-> "Signed up " \o email \o " for " \o activity_name ]

Unregistered(email, activity_name) ==
    [ status_code |-> 200,
      message |-> "Unregistered " \o email \o " from " \o activity_name ]

(* get_activities' result: activity name -> its fields and roster. *)
Listing(acts, ps) ==
    [ status_code |-> 200,
      body |-> [ n \in { a.name : a \in acts } |->
                 LET a == ActivityByName(acts, n)
                 IN  [ description |-> a.description,
                       schedule |-> a.schedule,
                       max_participants |-> a.max_participants,
                       participants |-> RosterEmails(ps, a.id) ] ] ]

(* An exception no handler catches: the commit of a delete whose row is gone. *)
ServerError == [ status_code |-> 500, detail |-> "Internal Server Error" ]

(* A variant whose comparison is off by one. *)
IsFull_OffByOne(a, size) == a.max_participants # 0 /\ size > a.max_participants

(* A variant that takes a capacity of 0 for a limit. *)
IsFull_ZeroIsLimit(a, size) == size >= a.max_participants

(* `act.max_participants and len(act.participants) >= act.max_participants` *)
IsFull(a, size) == a.max_participants # 0 /\ size >= a.max_participants

(* A variant that never finds the student enrolled. *)
IsEnrolled_Never(p) == FALSE

(* `if existing:` of signup_for_activity *)
IsEnrolled(p) == p # NoRow

(* A variant that never finds the student missing. *)
IsMissing_Never(p) == FALSE

(* `if not p:` of unregister_from_activity *)
IsMissing(p) == p = NoRow

(* A variant without the finally clause: closed only when the handler returns. *)
CloseSession_OnReturnOnly(open, r) ==
    IF resp[r].status_code = 200 THEN open \ { r } ELSE open

(* get_db's finally clause: db.close() *)
CloseSession(open, r) == open \ { r }

-----------------------------------------------------------------------------
(* A variant that checks the capacity before the duplicate. *)
SignupOrder_CapacityFirst(label) ==
    CASE label = "query_activity" -> "check_capacity"
      [] label = "check_capacity" -> "query_participant"
      [] label = "query_participant" -> "add_commit"

(* The order of signup_for_activity's statements: the step after `label`. *)
SignupOrder(label) ==
    CASE label = "query_activity" -> "query_participant"
      [] label = "query_participant" -> "check_capacity"
      [] label = "check_capacity" -> "add_commit"

(* The order of unregister_from_activity's statements. *)
UnregisterOrder(label) ==
    CASE label = "query_activity" -> "query_participant"
      [] label = "query_participant" -> "delete_commit"

StepAfter(r, label) ==
    IF args[r].op = "signup" THEN SignupOrder(label) ELSE UnregisterOrder(label)

Free(r) == pc[r] \in { "idle", "done" }

Init ==
    /\ activities = {}
    /\ participants = EmptyBag
    /\ started = FALSE
    /\ pc = [ r \in Requests |-> "idle" ]
    /\ args = [ r \in Requests |-> NoArgs ]
    /\ act = [ r \in Requests |-> NoRow ]
    /\ resp = [ r \in Requests |-> NoResponse ]
    /\ sessions = {}
    /\ closes = [ r \in Requests |-> 0 ]
    /\ snap = << {}, EmptyBag >>
    /\ log = NoArgs

(* on_startup: init_db(seed_data=activities), at each start of the process. *)
on_startup ==
    /\ \A r \in Requests : Free(r)
    /\ activities' = init_db(activities, participants)[1]
    /\ participants' = init_db(activities, participants)[2]
    /\ started' = TRUE
    /\ snap' = store
    /\ UNCHANGED << pc, args, act, resp, sessions, closes, log >>

(* get_db up to its yield: request r arrives and its session is opened. *)
get_db(r, request) ==
    /\ started
    /\ sessions' = sessions \cup { r }
    /\ closes' = [ closes EXCEPT ![r] = 0 ]
    /\ args' = [ args EXCEPT ![r] = request ]
    /\ act' = [ act EXCEPT ![r] = NoRow ]
    /\ resp' = [ resp EXCEPT ![r] = NoResponse ]
    /\ pc' = [ pc EXCEPT ![r] = IF request.op = "list" THEN "query_all"
                                                         ELSE "query_activity" ]
    /\ UNCHANGED << activities, participants, started, log >>

(* The requests a client may send. *)
RequestsSent ==
    [ op : { "signup", "unregister" }, activity_name : ActivityNames, email : Emails ]
    \cup { [ op |-> "list" ] }

(* Serialized access: a request begins when no other is in progress. *)
SerialBegin ==
    /\ \A q \in Requests : Free(q)
    /\ \E request \in RequestsSent : get_db(1, request)
    /\ snap' = store

(* Concurrent access: each request slot serves one request, taken in order. *)
ConcBegin(r) ==
    /\ pc[r] = "idle"
    /\ \A q \in Requests : q < r => pc[q] # "idle"
    /\ \E request \in RequestsSent : get_db(r, request)
    /\ UNCHANGED snap

(* get_activities *)
QueryAll(r) ==
    /\ pc[r] = "query_all"
    /\ resp' = [ resp EXCEPT ![r] = Listing(activities, participants) ]
    /\ pc' = [ pc EXCEPT ![r] = "finally" ]
    /\ UNCHANGED << activities, participants, started, args, act, sessions, closes,
                    snap, log >>

(* `act = db.query(Activity)...first()` and `if not act: raise 404`, in both *)
(* signup_for_activity and unregister_from_activity.                        *)
QueryActivity(r) ==
    /\ pc[r] = "query_activity"
    /\ LET a == ActivityByName(activities, args[r].activity_name)
       IN  /\ act' = [ act EXCEPT ![r] = a ]
           /\ IF a = NoRow
              THEN /\ resp' = [ resp EXCEPT ![r] = NotFound ]
                   /\ pc' = [ pc EXCEPT ![r] = "finally" ]
              ELSE /\ resp' = resp
                   /\ pc' = [ pc EXCEPT ![r] = StepAfter(r, "query_activity") ]
    /\ UNCHANGED << activities, participants, started, args, sessions, closes,
                    snap, log >>

(* The Participant query and the check of its result: `if existing: raise` *)
(* in signup_for_activity, `if not p: raise` in unregister_from_activity.   *)
QueryParticipant(r) ==
    /\ pc[r] = "query_participant"
    /\ LET p == ParticipantOf(participants, act[r].id, args[r].email)
       IN  IF args[r].op = "signup" /\ IsEnrolled(p)
           THEN /\ resp' = [ resp EXCEPT ![r] = AlreadyEnrolled ]
                /\ pc' = [ pc EXCEPT ![r] = "finally" ]
           ELSE IF args[r].op = "unregister" /\ IsMissing(p)
           THEN /\ resp' = [ resp EXCEPT ![r] = NotEnrolled ]
                /\ pc' = [ pc EXCEPT ![r] = "finally" ]
           ELSE /\ resp' = resp
                /\ pc' = [ pc EXCEPT ![r] = StepAfter(r, "query_participant") ]
    /\ UNCHANGED << activities, participants, started, args, act, sessions, closes,
                    snap, log >>

(* The capacity check of signup_for_activity; act.participants is loaded here. *)
CheckCapacity(r) ==
    /\ pc[r] = "check_capacity"
    /\ IF IsFull(act[r], RosterSize(participants, act[r].id))
       THEN /\ resp' = [ resp EXCEPT ![r] = Full ]
            /\ pc' = [ pc EXCEPT ![r] = "finally" ]
       ELSE /\ resp' = resp
            /\ pc' = [ pc EXCEPT ![r] = StepAfter(r, "check_capacity") ]
    /\ UNCHANGED << activities, participants, started, args, act, sessions, closes,
                    snap, log >>

(* `p = Participant(...)`, db.add(p), db.commit() and the return. *)
AddCommit(r) ==
    /\ pc[r] = "add_commit"
    /\ participants' = AddParticipant(participants,
                           [ email |-> args[r].email, activity_id |-> act[r].id ])
    /\ resp' = [ resp EXCEPT ![r] = SignedUp(args[r].email, args[r].activity_name) ]
    /\ pc' = [ pc EXCEPT ![r] = "finally" ]
    /\ UNCHANGED << activities, started, args, act, sessions, closes, snap, log >>

(* db.delete(p), db.commit() and the return.  When the row was deleted by *)
(* another request since it was read, the commit raises and nothing is     *)
(* deleted.                                                                *)
DeleteCommit(r) ==
    /\ pc[r] = "delete_commit"
    /\ LET p == [ email |-> args[r].email, activity_id |-> act[r].id ]
       IN  IF BagIn(p, participants)
           THEN /\ participants' = DeleteParticipant(participants, p)
                /\ resp' = [ resp EXCEPT ![r] =
                               Unregistered(args[r].email, args[r].activity_name) ]
           ELSE /\ participants' = participants
                /\ resp' = [ resp EXCEPT ![r] = ServerError ]
    /\ pc' = [ pc EXCEPT ![r] = "finally" ]
    /\ UNCHANGED << activities, started, args, act, sessions, closes, snap, log >>

(* get_db after its yield: the handler has returned or raised. *)
Finally(r) ==
    /\ pc[r] = "finally"
    /\ sessions' = CloseSession(sessions, r)
    /\ closes' = [ closes EXCEPT ![r] = IF r \in sessions' THEN @ ELSE @ + 1 ]
    /\ pc' = [ pc EXCEPT ![r] = "done" ]
    /\ UNCHANGED << activities, participants, started, args, act, resp, snap >>

(* Under serialized access the completed request is recorded. *)
SerialFinally(r) ==
    /\ Finally(r)
    /\ log' = IF args[r].op = "signup" /\ resp[r].status_code = 200
              THEN [ op |-> "signup", activity_name |-> args[r].activity_name,
                     email |-> args[r].email, before |-> snap ]
              ELSE NoArgs

ConcFinally(r) ==
    /\ Finally(r)
    /\ UNCHANGED log

(* The statements of the handlers. *)
Step(r) ==
    \/ QueryAll(r)
    \/ QueryActivity(r)
    \/ QueryParticipant(r)
    \/ CheckCapacity(r)
    \/ AddCommit(r)
    \/ DeleteCommit(r)

Next ==
    \/ on_startup
    \/ SerialBegin
    \/ \E r \in Requests : Step(r)
    \/ \E r \in Requests : SerialFinally(r)

Spec == Init /\ [][Next]_vars

ConcNext ==
    \/ on_startup
    \/ \E r \in Requests : ConcBegin(r)
    \/ \E r \in Requests : Step(r)
    \/ \E r \in Requests : ConcFinally(r)

ConcSpec == Init /\ [][ConcNext]_vars

-----------------------------------------------------------------------------
(* The claims.  In Spec a request at "finally" is the only one in progress, *)
(* and snap holds the tables as they were when it began.                    *)

(* The handler of request r, an `op` request, has returned or raised. *)
Exited(r, op) == pc[r] = "finally" /\ args[r].op = op

(* The row the request r is about, given its activity a. *)
RowOf(r, a) == [ email |-> args[r].email, activity_id |-> a.id ]

(* The emails on the roster of an activity. *)
EmailSet(ps, activity_id) == { q.email : q \in DOMAIN Roster(ps, activity_id) }

(* C1: under serialized access every Activity with a positive               *)
(* max_participants has a roster no larger than max_participants.           *)
C1_CapacityRespected ==
    \A a \in activities :
        a.max_participants > 0 => RosterSize(participants, a.id) <= a.max_participants

(* A signup was refused as Full on a roster that is exactly at capacity. *)
C1_Witness ==
    \E r \in Requests : \E a \in activities :
        /\ Exited(r, "signup") /\ resp[r] = Full
        /\ a.name = args[r].activity_name
        /\ a.max_participants > 0
        /\ RosterSize(participants, a.id) = a.max_participants

(* C2: under serialized access no Activity has two Participant rows with   *)
(* the same email.                                                          *)
C2_NoDuplicateEmail ==
    \A p \in BagToSet(participants) : CopiesIn(p, participants) = 1

(* A duplicate signup was refused while the email is on two activities. *)
C2_Witness ==
    \E r \in Requests : \E a, b \in activities :
        /\ Exited(r, "signup") /\ resp[r] = AlreadyEnrolled
        /\ a.name = args[r].activity_name
        /\ b.id # a.id
        /\ BagIn(RowOf(r, a), participants)
        /\ BagIn(RowOf(r, b), participants)

(* C3: signup reports the first failing check in the order existence,       *)
(* duplicate, capacity: NotFound for an unknown name; AlreadyEnrolled for   *)
(* an email on the roster, whatever the capacity.                           *)
C3_CheckOrder ==
    \A r \in Requests :
        Exited(r, "signup") =>
            /\ (\A a \in snap[1] : a.name # args[r].activity_name) => resp[r] = NotFound
            /\ \A a \in snap[1] :
                   a.name = args[r].activity_name /\ BagIn(RowOf(r, a), snap[2])
                   => resp[r] = AlreadyEnrolled

(* A duplicate signup on an activity at capacity was refused as AlreadyEnrolled. *)
C3_Witness ==
    \E r \in Requests : \E a \in snap[1] :
        /\ Exited(r, "signup") /\ resp[r] = AlreadyEnrolled
        /\ a.name = args[r].activity_name
        /\ a.max_participants > 0
        /\ RosterSize(snap[2], a.id) >= a.max_participants
        /\ BagIn(RowOf(r, a), snap[2])

(* C4: for an existing activity and an email not on its roster, signup      *)
(* fails with Full exactly when max_participants > 0 and the roster size is *)
(* >= max_participants, and then adds no row; with max_participants 0 it    *)
(* succeeds and adds the email to the roster.                               *)
C4_FullExactlyAtCapacity ==
    \A r \in Requests : \A a \in snap[1] :
        ( /\ Exited(r, "signup")
          /\ a.name = args[r].activity_name
          /\ ~BagIn(RowOf(r, a), snap[2]) )
        => /\ resp[r] = Full <=> ( /\ a.max_participants > 0
                                   /\ RosterSize(snap[2], a.id) >= a.max_participants )
           /\ resp[r] = Full => participants = snap[2]
           /\ a.max_participants = 0 =>
                  /\ resp[r] = SignedUp(args[r].email, args[r].activity_name)
                  /\ args[r].email \in EmailSet(participants, a.id)
                  /\ participants = snap[2] (+) SetToBag({ RowOf(r, a) })

(* A new email was refused as Full. *)
C4_Witness ==
    \E r \in Requests : \E a \in snap[1] :
        /\ Exited(r, "signup") /\ resp[r] = Full
        /\ a.name = args[r].activity_name
        /\ ~BagIn(RowOf(r, a), snap[2])
        /\ participants = snap[2]

(* C5: an unregister(A, e) that immediately follows a successful            *)
(* signup(A, e) succeeds and leaves on every roster the emails that were    *)
(* on it before the signup.                                                 *)
C5_SignupThenUnregister ==
    \A r \in Requests :
        ( /\ Exited(r, "unregister")
          /\ log.op = "signup"
          /\ log.activity_name = args[r].activity_name
          /\ log.email = args[r].email )
        => /\ resp[r] = Unregistered(args[r].email, args[r].activity_name)
           /\ activities = log.before[1]
           /\ \A a \in activities :
                  EmailSet(participants, a.id) = EmailSet(log.before[2], a.id)

(* Such an unregister has run, for an email that is on another roster too. *)
C5_Witness ==
    \E r \in Requests : \E a, b \in activities :
        /\ Exited(r, "unregister")
        /\ log.op = "signup"
        /\ log.activity_name = args[r].activity_name
        /\ log.email = args[r].email
        /\ resp[r].status_code = 200
        /\ a.name = args[r].activity_name
        /\ b.id # a.id
        /\ BagIn(RowOf(r, b), participants)

(* C6: unregister fails with NotEnrolled for an email that is not on the    *)
(* roster of an existing activity and with NotFound for an unknown name,    *)
(* and in both cases leaves the Activity and Participant rows unchanged.    *)
C6_UnregisterFailures ==
    \A r \in Requests :
        Exited(r, "unregister") =>
            /\ (\A a \in snap[1] : a.name # args[r].activity_name)
               => resp[r] = NotFound /\ store = snap
            /\ \A a \in snap[1] :
                   a.name = args[r].activity_name /\ ~BagIn(RowOf(r, a), snap[2])
                   => resp[r] = NotEnrolled /\ store = snap

(* An unregister was refused as NotEnrolled. *)
C6_Witness ==
    \E r \in Requests : \E a \in snap[1] :
        /\ Exited(r, "unregister") /\ resp[r] = NotEnrolled
        /\ a.name = args[r].activity_name
        /\ ~BagIn(RowOf(r, a), snap[2])

(* C7: a call of init_db after the first one leaves every Activity and      *)
(* Participant row unchanged.                                               *)
C7_InitIdempotent ==
    [][ on_startup /\ started => store' = store ]_vars

(* init_db has been called again after an unregister changed the seeded     *)
(* tables: the tables are as that call found them.                          *)
C7_Witness ==
    /\ started
    /\ activities = init_db({}, EmptyBag)[1]
    /\ participants # init_db({}, EmptyBag)[2]
    /\ snap = store
    /\ \E r \in Requests : pc[r] = "done" /\ resp[r].status_code = 200
                           /\ args[r].op = "unregister"

(* C8: without serialization a signup that passed its checks commits even   *)
(* when another signup has filled the roster meanwhile, and the roster then *)
(* exceeds a positive max_participants.                                     *)
C8_RaceExceedsCapacity ==
    [][ \A r \in Requests :
            ( /\ pc[r] = "add_commit" /\ pc'[r] = "finally"
              /\ act[r].max_participants > 0
              /\ RosterSize(participants, act[r].id) >= act[r].max_participants )
            => /\ resp'[r] = SignedUp(args[r].email, args[r].activity_name)
               /\ RosterSize(participants', act[r].id)
                      = RosterSize(participants, act[r].id) + 1
               /\ RosterSize(participants', act[r].id) > act[r].max_participants
      ]_vars

(* Two signups of distinct emails for one activity both succeeded and its   *)
(* roster is larger than its positive max_participants.                     *)
C8_Witness ==
    \E r, q \in Requests : \E a \in activities :
        /\ r # q
        /\ args[r].op = "signup" /\ args[q].op = "signup"
        /\ args[r].activity_name = a.name /\ args[q].activity_name = a.name
        /\ args[r].email # args[q].email
        /\ resp[r].status_code = 200 /\ resp[q].status_code = 200
        /\ a.max_participants > 0
        /\ RosterSize(participants, a.id) > a.max_participants

(* C9: the session of a request is open while the request runs and is       *)
(* closed, exactly once, when it has completed, on every exit path.         *)
C9_SessionReleased ==
    \A r \in Requests :
        /\ pc[r] = "done" => r \notin sessions /\ closes[r] = 1
        /\ pc[r] = "idle" => r \notin sessions
        /\ pc[r] \notin { "idle", "done" } => r \in sessions /\ closes[r] = 0

(* A request that succeeded and one that failed have both completed. *)
C9_Witness ==
    \E r, q \in Requests :
        /\ pc[r] = "done" /\ resp[r].status_code = 200
        /\ pc[q] = "done" /\ resp[q].status_code \in { 400, 404 }
        /\ sessions = {}

(* C10: a request leaves the Activity rows unchanged and the roster of      *)
(* every activity but its own; a successful signup adds exactly one         *)
(* Participant to its activity, a successful unregister removes exactly     *)
(* one, and a failed request or a list changes nothing.                     *)
C10_Frame ==
    \A r \in Requests :
        pc[r] = "finally" =>
            /\ activities = snap[1]
            /\ \A b \in activities :
                   (args[r].op = "list" \/ b.name # args[r].activity_name)
                   => Roster(participants, b.id) = Roster(snap[2], b.id)
            /\ resp[r].status_code # 200 \/ args[r].op = "list"
               => participants = snap[2]
            /\ \A a \in activities :
                   ( /\ args[r].op # "list"
                     /\ a.name = args[r].activity_name
                     /\ resp[r].status_code = 200 )
                   => /\ args[r].op = "signup"
                         => participants = snap[2] (+) SetToBag({ RowOf(r, a) })
                      /\ args[r].op = "unregister"
                         => snap[2] = participants (+) SetToBag({ RowOf(r, a) })

(* An unregister succeeded on a roster of two while another roster has rows. *)
C10_Witness ==
    \E r \in Requests : \E a, b \in activities :
        /\ Exited(r, "unregister") /\ resp[r].status_code = 200
        /\ a.name = args[r].activity_name
        /\ RosterSize(snap[2], a.id) = 2
        /\ b.id # a.id
        /\ RosterSize(participants, b.id) > 0

====
